---- MODULE Spec2Model ----
(***************************************************************************)
(* Mentor-student API (Express + Mongoose): two collections, Mentor and    *)
(* Student, and the route handlers that read and write them.  Every store  *)
(* operation a handler awaits is one step, so that other requests can run  *)
(* between two awaits of the same handler.                                 *)
(***************************************************************************)
EXTENDS Integers, Sequences, FiniteSets, TLC

\* ---------------------------------------------------------------- bounds
NumMentors == 3
NumStudents == 2
MaxRoster == 2
MaxRequests == 6
MaxConcRequests == 6
MaxLiveRequests == 3

\* ------------------------------------------------------------ identifiers
\* An ObjectId reference that is absent (undefined / null in the document).
NoRef == 0
\* A route parameter that does not cast to an ObjectId: findById throws.
BadId == 0 - 1

MentorIds == 1..NumMentors
StudentIds == (NumMentors + 1)..(NumMentors + NumStudents)
Names == {"Ada"}

\* The request slots: the handlers the event loop has in flight.
Slots == {1, 2}
SeqSlots == {1}

\* mentors, students: the two collections.  req: the handlers in flight and
\* the last response of each slot.  reassigned: a reassign request was made.
\* plain: no POST body has carried a relationship field.  nreq, budget: the
\* requests made and the requests a run makes.
VARIABLES mentors, students, req, reassigned, plain, nreq, budget

vars == <<mentors, students, req, reassigned, plain, nreq, budget>>

\* ------------------------------------------------------------- documents
\* mentorSchema: name, students (array of Student references).
NoMentor == [exists |-> FALSE, name |-> "", students |-> <<>>]
\* studentSchema: name, mentor, previousMentor (Mentor references).
NoStudent == [exists |-> FALSE, name |-> "", mentor |-> NoRef, previousMentor |-> NoRef]

\* Model.findById on a well-formed id: the stored document or null.
FindMentor(id) == IF id \in MentorIds THEN mentors[id] ELSE NoMentor
FindStudent(id) == IF id \in StudentIds THEN students[id] ELSE NoStudent

\* The document as a response serialises it (with its _id).
MentorJson(id, d) == [id |-> id, name |-> d.name, students |-> d.students]
StudentJson(id, d) ==
    [id |-> id, name |-> d.name, mentor |-> d.mentor, previousMentor |-> d.previousMentor]

\* ---------------------------------------------------------------- slots
Idle ==
    [pc |-> "idle", at |-> "none", kind |-> "none", mid |-> NoRef, sid |-> NoRef,
     mentor |-> NoMentor, student |-> NoStudent,
     status |-> 0, err |-> "none", body |-> <<>>]

\* The slot can take a request (and the run has requests left).
Free(r) == req[r].pc \in {"idle", "done"} /\ nreq < budget

\* A handler that has reached pc with its locals.
InFlight(kind, mid, sid, pc, m, s) ==
    [pc |-> pc, at |-> "none", kind |-> kind, mid |-> mid, sid |-> sid,
     mentor |-> m, student |-> s, status |-> 0, err |-> "none", body |-> <<>>]

\* res.status(code).send(body): the handler has responded.
Respond(kind, mid, sid, at, code, err, body) ==
    [pc |-> "done", at |-> at, kind |-> kind, mid |-> mid, sid |-> sid,
     mentor |-> NoMentor, student |-> NoStudent,
     status |-> code, err |-> err, body |-> body]

Empty ==
    /\ mentors = [m \in MentorIds |-> NoMentor]
    /\ students = [s \in StudentIds |-> NoStudent]
    /\ req = [r \in Slots |-> Idle]
    /\ reassigned = FALSE
    /\ plain = TRUE
    /\ nreq = 0

Init == Empty /\ budget = MaxRequests

\* ---------------------------------------------------------------- create
\* The _id of a new document: one no document of the collection has.
FreshMentorId == CHOOSE id \in MentorIds : ~mentors[id].exists /\ \A j \in MentorIds : j < id => mentors[j].exists
FreshStudentId == CHOOSE id \in StudentIds : ~students[id].exists /\ \A j \in StudentIds : j < id => students[j].exists

\* The students arrays a POST /mentors body may carry.
BodyRosters == {<<>>, <<NumMentors + 1>>}
\* The references a POST /students body may carry.
BodyRefs == {NoRef, 1}

\* POST /mentors: new Mentor(req.body), save, 201.
PostMentor(r, name, roster) ==
    /\ Free(r)
    /\ \E id \in MentorIds : ~mentors[id].exists
    /\ LET id == FreshMentorId
           doc == [exists |-> TRUE, name |-> name, students |-> roster]
       IN /\ mentors' = [mentors EXCEPT ![id] = doc]
          /\ req' = [req EXCEPT ![r] =
                        Respond("createMentor", id, NoRef, "save", 201, "none", <<MentorJson(id, doc)>>)]
    /\ plain' = (plain /\ roster = <<>>)
    /\ nreq' = nreq + 1
    /\ UNCHANGED <<students, reassigned, budget>>

\* POST /students: new Student(req.body), save, 201.
PostStudent(r, name, mentor, previousMentor) ==
    /\ Free(r)
    /\ \E id \in StudentIds : ~students[id].exists
    /\ LET id == FreshStudentId
           doc == [exists |-> TRUE, name |-> name, mentor |-> mentor,
                   previousMentor |-> previousMentor]
       IN /\ students' = [students EXCEPT ![id] = doc]
          /\ req' = [req EXCEPT ![r] =
                        Respond("createStudent", NoRef, id, "save", 201, "none", <<StudentJson(id, doc)>>)]
    /\ plain' = (plain /\ mentor = NoRef /\ previousMentor = NoRef)
    /\ nreq' = nreq + 1
    /\ UNCHANGED <<mentors, reassigned, budget>>

\* ------------------------------------------------------------- helpers
\* The route parameters a request may carry.
MentorParams == MentorIds \cup {BadId}
StudentParams == StudentIds \cup {BadId}

\* Appends to a roster stay within MaxRoster: the stored array plus the
\* appends the handlers in flight still have to make.
PendingPushes(mid) ==
    Cardinality({q \in Slots : /\ req[q].pc \notin {"idle", "done"}
                              /\ req[q].kind \in {"assign", "reassign"}
                              /\ req[q].mid = mid})
RosterRoom(mid) ==
    mid \in MentorIds => Len(mentors[mid].students) + PendingPushes(mid) < MaxRoster

\* student.save(): Mongoose writes the paths whose value differs from the
\* value read ($set of the modified paths), not the whole document.
StudentSave(stored, read, local) ==
    [stored EXCEPT !.mentor = IF local.mentor # read.mentor THEN local.mentor ELSE @,
                   !.previousMentor = IF local.previousMentor # read.previousMentor
                                      THEN local.previousMentor ELSE @]

\* mentor.students.push(id); mentor.save(): Mongoose sends the push ($push),
\* so the id is appended to the stored array.
MentorSavePush(stored, sid) == [stored EXCEPT !.students = Append(@, sid)]

\* ---------------------------------------------------------------- assign
\* Mutant: the assignment to student.mentor is missing.
AssignLocalForgotten(read, mid) == read

\* Mutant: the assign also clears the student's previousMentor.
AssignLocalClearsPrevious(read, mid) == [read EXCEPT !.mentor = mid, !.previousMentor = NoRef]

\* student.mentor = mentor._id
AssignLocal(read, mid) == [read EXCEPT !.mentor = mid]

\* POST /mentors/:mentorId/students/:studentId, up to the first await:
\* Mentor.findById(mentorId).
AssignFindMentor(r, mid, sid) ==
    /\ Free(r)
    /\ RosterRoom(mid)
    /\ req' = [req EXCEPT ![r] =
                  IF mid = BadId
                  THEN Respond("assign", mid, sid, "findMentor", 500, "cast", <<>>)
                  ELSE InFlight("assign", mid, sid, "findStudent", FindMentor(mid), NoStudent)]
    /\ nreq' = nreq + 1
    /\ UNCHANGED <<mentors, students, reassigned, plain, budget>>

\* Mutant: the check for a student that already has a mentor is missing.
AssignFindStudentNoCheck(r) ==
    /\ req[r].pc = "findStudent"
    /\ req[r].kind = "assign"
    /\ LET q == req[r]
           s == FindStudent(q.sid)
       IN req' = [req EXCEPT ![r] =
                     IF q.sid = BadId
                     THEN Respond("assign", q.mid, q.sid, "findStudent", 500, "cast", <<>>)
                     ELSE IF ~q.mentor.exists \/ ~s.exists
                     THEN Respond("assign", q.mid, q.sid, "findStudent", 404, "none", <<>>)
                     ELSE InFlight("assign", q.mid, q.sid, "saveStudent", q.mentor, s)]
    /\ UNCHANGED <<mentors, students, reassigned, plain, nreq, budget>>

\* Student.findById(studentId), then the 404 and 400 checks.
AssignFindStudent(r) ==
    /\ req[r].pc = "findStudent"
    /\ req[r].kind = "assign"
    /\ LET q == req[r]
           s == FindStudent(q.sid)
       IN req' = [req EXCEPT ![r] =
                     IF q.sid = BadId
                     THEN Respond("assign", q.mid, q.sid, "findStudent", 500, "cast", <<>>)
                     ELSE IF ~q.mentor.exists \/ ~s.exists
                     THEN Respond("assign", q.mid, q.sid, "findStudent", 404, "none", <<>>)
                     ELSE IF s.mentor # NoRef
                     THEN Respond("assign", q.mid, q.sid, "findStudent", 400, "none", <<>>)
                     ELSE InFlight("assign", q.mid, q.sid, "saveStudent", q.mentor, s)]
    /\ UNCHANGED <<mentors, students, reassigned, plain, nreq, budget>>

\* student.mentor = mentor._id; await student.save()
AssignSaveStudent(r) ==
    /\ req[r].pc = "saveStudent"
    /\ req[r].kind = "assign"
    /\ LET q == req[r]
       IN /\ students' = [students EXCEPT ![q.sid] =
                             StudentSave(@, q.student, AssignLocal(q.student, q.mid))]
          /\ req' = [req EXCEPT ![r].pc = "saveMentor"]
    /\ UNCHANGED <<mentors, reassigned, plain, nreq, budget>>

\* Mutant: the push is dropped when the student has meanwhile been given
\* another mentor.
AssignSaveMentorIfStillMine(r) ==
    /\ req[r].pc = "saveMentor"
    /\ req[r].kind = "assign"
    /\ LET q == req[r]
       IN /\ mentors' = [mentors EXCEPT ![q.mid] =
                            IF students[q.sid].mentor = q.mid
                            THEN MentorSavePush(@, q.sid) ELSE @]
          /\ req' = [req EXCEPT ![r] =
                        Respond("assign", q.mid, q.sid, "saveMentor", 200, "none",
                                <<MentorJson(q.mid, MentorSavePush(q.mentor, q.sid))>>)]
    /\ UNCHANGED <<students, reassigned, plain, nreq, budget>>

\* Mutant: the save writes the whole students array of the handler's copy,
\* over whatever was appended since the handler read the mentor.
AssignSaveMentorWholeArray(r) ==
    /\ req[r].pc = "saveMentor"
    /\ req[r].kind = "assign"
    /\ LET q == req[r]
       IN /\ mentors' = [mentors EXCEPT ![q.mid] =
                            [@ EXCEPT !.students = Append(q.mentor.students, q.sid)]]
          /\ req' = [req EXCEPT ![r] =
                        Respond("assign", q.mid, q.sid, "saveMentor", 200, "none",
                                <<MentorJson(q.mid, MentorSavePush(q.mentor, q.sid))>>)]
    /\ UNCHANGED <<students, reassigned, plain, nreq, budget>>

\* mentor.students.push(student._id); await mentor.save(); res.send(mentor)
AssignSaveMentor(r) ==
    /\ req[r].pc = "saveMentor"
    /\ req[r].kind = "assign"
    /\ LET q == req[r]
       IN /\ mentors' = [mentors EXCEPT ![q.mid] = MentorSavePush(@, q.sid)]
          /\ req' = [req EXCEPT ![r] =
                        Respond("assign", q.mid, q.sid, "saveMentor", 200, "none",
                                <<MentorJson(q.mid, MentorSavePush(q.mentor, q.sid))>>)]
    /\ UNCHANGED <<students, reassigned, plain, nreq, budget>>

\* -------------------------------------------------------------- reassign
\* Mutant: previousMentor is recorded only while it is empty.
ReassignLocalKeepFirst(read, mid) ==
    [read EXCEPT !.previousMentor = IF read.mentor # NoRef /\ @ = NoRef THEN read.mentor ELSE @,
                 !.mentor = mid]

\* if (student.mentor) student.previousMentor = student.mentor;
\* student.mentor = newMentor._id
ReassignLocal(read, mid) ==
    [read EXCEPT !.previousMentor = IF read.mentor # NoRef THEN read.mentor ELSE @,
                 !.mentor = mid]

\* PUT /students/:studentId/mentor/:mentorId, up to the first await:
\* Student.findById(studentId).
ReassignFindStudent(r, sid, mid) ==
    /\ Free(r)
    /\ RosterRoom(mid)
    /\ req' = [req EXCEPT ![r] =
                  IF sid = BadId
                  THEN Respond("reassign", mid, sid, "findStudent", 500, "cast", <<>>)
                  ELSE InFlight("reassign", mid, sid, "findMentor", NoMentor, FindStudent(sid))]
    /\ reassigned' = TRUE
    /\ nreq' = nreq + 1
    /\ UNCHANGED <<mentors, students, plain, budget>>

\* Mutant: a student with no mentor is refused, as by the assign handler's
\* check turned around.
ReassignFindMentorNeedsMentor(r) ==
    /\ req[r].pc = "findMentor"
    /\ req[r].kind = "reassign"
    /\ LET q == req[r]
           m == FindMentor(q.mid)
       IN req' = [req EXCEPT ![r] =
                     IF q.mid = BadId
                     THEN Respond("reassign", q.mid, q.sid, "findMentor", 500, "cast", <<>>)
                     ELSE IF ~q.student.exists \/ ~m.exists
                     THEN Respond("reassign", q.mid, q.sid, "findMentor", 404, "none", <<>>)
                     ELSE IF q.student.mentor = NoRef
                     THEN Respond("reassign", q.mid, q.sid, "findMentor", 400, "none", <<>>)
                     ELSE InFlight("reassign", q.mid, q.sid, "saveStudent", m, q.student)]
    /\ UNCHANGED <<mentors, students, reassigned, plain, nreq, budget>>

\* Mentor.findById(mentorId), then the 404 check.
ReassignFindMentor(r) ==
    /\ req[r].pc = "findMentor"
    /\ req[r].kind = "reassign"
    /\ LET q == req[r]
           m == FindMentor(q.mid)
       IN req' = [req EXCEPT ![r] =
                     IF q.mid = BadId
                     THEN Respond("reassign", q.mid, q.sid, "findMentor", 500, "cast", <<>>)
                     ELSE IF ~q.student.exists \/ ~m.exists
                     THEN Respond("reassign", q.mid, q.sid, "findMentor", 404, "none", <<>>)
                     ELSE InFlight("reassign", q.mid, q.sid, "saveStudent", m, q.student)]
    /\ UNCHANGED <<mentors, students, reassigned, plain, nreq, budget>>

\* previousMentor and mentor are set on the local document; await student.save()
ReassignSaveStudent(r) ==
    /\ req[r].pc = "saveStudent"
    /\ req[r].kind = "reassign"
    /\ LET q == req[r]
       IN /\ students' = [students EXCEPT ![q.sid] =
                             StudentSave(@, q.student, ReassignLocal(q.student, q.mid))]
          /\ req' = [req EXCEPT ![r].pc = "saveMentor"]
    /\ UNCHANGED <<mentors, reassigned, plain, nreq, budget>>

\* Mutant: the reassign also takes the student out of the former mentor's
\* students.
Without(seq, x) == SelectSeq(seq, LAMBDA e : e # x)

ReassignSaveMentorPrune(r) ==
    /\ req[r].pc = "saveMentor"
    /\ req[r].kind = "reassign"
    /\ LET q == req[r]
           old == q.student.mentor
       IN /\ mentors' = [m \in MentorIds |->
                            IF m = q.mid THEN MentorSavePush(mentors[m], q.sid)
                            ELSE IF m = old
                            THEN [mentors[m] EXCEPT !.students = Without(@, q.sid)]
                            ELSE mentors[m]]
          /\ req' = [req EXCEPT ![r] =
                        Respond("reassign", q.mid, q.sid, "saveMentor", 200, "none",
                                <<StudentJson(q.sid, ReassignLocal(q.student, q.mid))>>)]
    /\ UNCHANGED <<students, reassigned, plain, nreq, budget>>

\* newMentor.students.push(student._id); await newMentor.save(); res.send(student)
ReassignSaveMentor(r) ==
    /\ req[r].pc = "saveMentor"
    /\ req[r].kind = "reassign"
    /\ LET q == req[r]
       IN /\ mentors' = [mentors EXCEPT ![q.mid] = MentorSavePush(@, q.sid)]
          /\ req' = [req EXCEPT ![r] =
                        Respond("reassign", q.mid, q.sid, "saveMentor", 200, "none",
                                <<StudentJson(q.sid, ReassignLocal(q.student, q.mid))>>)]
    /\ UNCHANGED <<students, reassigned, plain, nreq, budget>>

\* --------------------------------------------------------------- queries
\* populate('students'): the stored documents of the referenced ids, in the
\* array's order; an id with no document is left out.
RECURSIVE PopulateStudents(_)
PopulateStudents(roster) ==
    IF roster = <<>> THEN <<>>
    ELSE LET id == Head(roster)
             rest == PopulateStudents(Tail(roster))
         IN IF FindStudent(id).exists
            THEN <<StudentJson(id, FindStudent(id))>> \o rest
            ELSE rest

\* populate('previousMentor'): the referenced document, or null.
PopulatePreviousMentor(ref) ==
    IF ref # NoRef /\ FindMentor(ref).exists
    THEN <<MentorJson(ref, FindMentor(ref))>>
    ELSE <<>>

\* GET /mentors/:mentorId/students: Mentor.findById(mentorId) ...
GetMentorStudents(r, mid) ==
    /\ Free(r)
    /\ req' = [req EXCEPT ![r] =
                  IF mid = BadId
                  THEN Respond("mentorStudents", mid, NoRef, "findMentor", 500, "cast", <<>>)
                  ELSE IF ~FindMentor(mid).exists
                  THEN Respond("mentorStudents", mid, NoRef, "findMentor", 404, "none", <<>>)
                  ELSE InFlight("mentorStudents", mid, NoRef, "populate", FindMentor(mid), NoStudent)]
    /\ nreq' = nreq + 1
    /\ UNCHANGED <<mentors, students, reassigned, plain, budget>>

\* ... .populate('students'); res.send(mentor.students)
GetMentorStudentsPopulate(r) ==
    /\ req[r].pc = "populate"
    /\ req[r].kind = "mentorStudents"
    /\ req' = [req EXCEPT ![r] =
                  Respond("mentorStudents", req[r].mid, NoRef, "populate", 200, "none",
                          PopulateStudents(req[r].mentor.students))]
    /\ UNCHANGED <<mentors, students, reassigned, plain, nreq, budget>>

\* GET /students/:studentId/previous-mentor: Student.findById(studentId) ...
GetPreviousMentor(r, sid) ==
    /\ Free(r)
    /\ req' = [req EXCEPT ![r] =
                  IF sid = BadId
                  THEN Respond("previousMentor", NoRef, sid, "findStudent", 500, "cast", <<>>)
                  ELSE IF ~FindStudent(sid).exists
                  THEN Respond("previousMentor", NoRef, sid, "findStudent", 404, "none", <<>>)
                  ELSE InFlight("previousMentor", NoRef, sid, "populate", NoMentor, FindStudent(sid))]
    /\ nreq' = nreq + 1
    /\ UNCHANGED <<mentors, students, reassigned, plain, budget>>

\* ... .populate('previousMentor'); res.send(student.previousMentor)
GetPreviousMentorPopulate(r) ==
    /\ req[r].pc = "populate"
    /\ req[r].kind = "previousMentor"
    /\ req' = [req EXCEPT ![r] =
                  Respond("previousMentor", NoRef, req[r].sid, "populate", 200, "none",
                          PopulatePreviousMentor(req[r].student.previousMentor))]
    /\ UNCHANGED <<mentors, students, reassigned, plain, nreq, budget>>

\* ---------------------------------------------------------------- errors
\* Mutant: the catch block undoes the student write when the mentor write
\* is rejected.
StoreErrorRollback(r) ==
    /\ req[r].pc \notin {"idle", "done"}
    /\ req' = [req EXCEPT ![r] =
                  Respond(req[r].kind, req[r].mid, req[r].sid, req[r].pc, 500, "store", <<>>)]
    /\ students' = IF req[r].pc = "saveMentor"
                   THEN [students EXCEPT ![req[r].sid] = req[r].student]
                   ELSE students
    /\ UNCHANGED <<mentors, reassigned, plain, nreq, budget>>

\* Mutant: the rejection is not caught: the handler ends without responding.
StoreErrorUncaught(r) ==
    /\ req[r].pc \notin {"idle", "done", "hung"}
    /\ req' = [req EXCEPT ![r].pc = "hung"]
    /\ UNCHANGED <<mentors, students, reassigned, plain, nreq, budget>>

\* catch (error) { res.status(500).send(...) }: the store operation the
\* handler awaits rejects; nothing the handler wrote before is undone.
StoreError(r) ==
    /\ req[r].pc \notin {"idle", "done"}
    /\ req' = [req EXCEPT ![r] =
                  Respond(req[r].kind, req[r].mid, req[r].sid, req[r].pc, 500, "store", <<>>)]
    /\ UNCHANGED <<mentors, students, reassigned, plain, nreq, budget>>

\* The first store operation of a handler rejects: the handler has resolved
\* no id yet.
StoreErrorOnArrival(r, kind) ==
    /\ Free(r)
    /\ req' = [req EXCEPT ![r] = Respond(kind, NoRef, NoRef, "arrival", 500, "store", <<>>)]
    /\ reassigned' = (reassigned \/ kind = "reassign")
    /\ nreq' = nreq + 1
    /\ UNCHANGED <<mentors, students, plain, budget>>

Kinds ==
    {"createMentor", "createStudent", "assign", "reassign", "mentorStudents",
     "previousMentor"}

\* ------------------------------------------------------- specifications
Handler(r) ==
    \/ \E n \in Names, ro \in BodyRosters : PostMentor(r, n, ro)
    \/ \E n \in Names, m \in BodyRefs, p \in BodyRefs : PostStudent(r, n, m, p)
    \/ \E m \in MentorParams, s \in StudentParams : AssignFindMentor(r, m, s)
    \/ AssignFindStudent(r)
    \/ AssignSaveStudent(r)
    \/ AssignSaveMentor(r)
    \/ \E s \in StudentParams, m \in MentorParams : ReassignFindStudent(r, s, m)
    \/ ReassignFindMentor(r)
    \/ ReassignSaveStudent(r)
    \/ ReassignSaveMentor(r)
    \/ \E m \in MentorParams : GetMentorStudents(r, m)
    \/ GetMentorStudentsPopulate(r)
    \/ \E s \in StudentParams : GetPreviousMentor(r, s)
    \/ GetPreviousMentorPopulate(r)
    \/ StoreError(r)
    \/ \E k \in Kinds : StoreErrorOnArrival(r, k)

\* The requests arrive one after the other: a request is handled only when
\* the one before has responded.
Next == \E r \in SeqSlots : Handler(r)

Spec == Init /\ [][Next]_vars

\* The requests overlap: a second handler may run between two awaits of the
\* first.  Well-formed ids only, POST bodies that carry a name only, and no
\* store operation rejects.
ConcHandler(r) ==
    \/ \E n \in Names : PostMentor(r, n, <<>>)
    \/ \E n \in Names : PostStudent(r, n, NoRef, NoRef)
    \/ \E m \in MentorIds, s \in StudentIds : AssignFindMentor(r, m, s)
    \/ AssignFindStudent(r)
    \/ AssignSaveStudent(r)
    \/ AssignSaveMentor(r)
    \/ \E s \in StudentIds, m \in MentorIds : ReassignFindStudent(r, s, m)
    \/ ReassignFindMentor(r)
    \/ ReassignSaveStudent(r)
    \/ ReassignSaveMentor(r)

InitConc == Empty /\ budget = MaxConcRequests

NextConc == \E r \in Slots : ConcHandler(r)

SpecConc == InitConc /\ [][NextConc]_vars

\* The store answers the operation the handler of slot r awaits: it replies,
\* and the handler runs to its next await or to its response, or it rejects,
\* and the handler's catch block responds.
StoreReplies(r) ==
    \/ AssignFindStudent(r)
    \/ AssignSaveStudent(r)
    \/ AssignSaveMentor(r)
    \/ ReassignFindMentor(r)
    \/ ReassignSaveStudent(r)
    \/ ReassignSaveMentor(r)
    \/ GetMentorStudentsPopulate(r)
    \/ GetPreviousMentorPopulate(r)
    \/ StoreError(r)

InitLive == Empty /\ budget = MaxLiveRequests

\* All the handlers, overlapping, any store operation of theirs rejecting.
\* Well-formed ids and POST bodies that carry a name only.
LiveHandler(r) ==
    \/ \E n \in Names : PostMentor(r, n, <<>>)
    \/ \E n \in Names : PostStudent(r, n, NoRef, NoRef)
    \/ \E m \in MentorIds, s \in StudentIds : AssignFindMentor(r, m, s)
    \/ AssignFindStudent(r)
    \/ AssignSaveStudent(r)
    \/ AssignSaveMentor(r)
    \/ \E s \in StudentIds, m \in MentorIds : ReassignFindStudent(r, s, m)
    \/ ReassignFindMentor(r)
    \/ ReassignSaveStudent(r)
    \/ ReassignSaveMentor(r)
    \/ \E m \in MentorIds : GetMentorStudents(r, m)
    \/ GetMentorStudentsPopulate(r)
    \/ \E s \in StudentIds : GetPreviousMentor(r, s)
    \/ GetPreviousMentorPopulate(r)
    \/ StoreError(r)
    \/ \E k \in Kinds : StoreErrorOnArrival(r, k)

NextLive == \E r \in Slots : LiveHandler(r)

\* Every store operation awaited is eventually answered.
SpecLive == InitLive /\ [][NextLive]_vars /\ \A r \in Slots : WF_vars(StoreReplies(r))

\* ================================================================ claims
Range(seq) == {seq[i] : i \in 1..Len(seq)}

\* Slot r takes a step that is not a rejected store operation.
StepOk(r) == req'[r] # req[r] /\ req'[r].err # "store"

\* Slot r responds in this step.
Responds(r) == req'[r].pc = "done" /\ (req[r].pc # "done" \/ nreq' # nreq)

\* C1: an assign request for an existing mentor m and an existing student s
\* with no mentor, run alone and with no store failure, passes the checks,
\* writes s.mentor = m, and responds 200 with s.mentor = m and s in
\* m.students.
C1_AssignEffect ==
    [][\A r \in SeqSlots :
        LET q == req[r] IN
        q.kind = "assign" /\ StepOk(r) =>
            /\ ( /\ q.pc = "findStudent"
                 /\ FindMentor(q.mid).exists
                 /\ FindStudent(q.sid).exists
                 /\ FindStudent(q.sid).mentor = NoRef )
               => req'[r].pc = "saveStudent"
            /\ q.pc = "saveStudent"
               => req'[r].pc = "saveMentor" /\ students'[q.sid].mentor = q.mid
            /\ q.pc = "saveMentor"
               => /\ req'[r].pc = "done" /\ req'[r].status = 200
                  /\ students'[q.sid].mentor = q.mid
                  /\ q.sid \in Range(mentors'[q.mid].students)
                  /\ q.student.mentor = NoRef]_vars

C1_Witness ==
    \E r \in SeqSlots :
        /\ req[r].pc = "done" /\ req[r].kind = "assign" /\ req[r].status = 200
        /\ students[req[r].sid].mentor = req[r].mid
        /\ req[r].sid \in Range(mentors[req[r].mid].students)

\* C2: an assign request for a student whose mentor is already set (target
\* mentor existing) responds 400, and no step of it writes the store.
C2_AlreadyAssigned ==
    [][\A r \in SeqSlots :
        /\ ( /\ req[r].kind = "assign" /\ req[r].pc = "findStudent" /\ StepOk(r)
             /\ FindMentor(req[r].mid).exists
             /\ FindStudent(req[r].sid).exists
             /\ FindStudent(req[r].sid).mentor # NoRef )
           => /\ req'[r].pc = "done" /\ req'[r].status = 400
              /\ mentors' = mentors /\ students' = students
        /\ ( /\ req'[r].kind = "assign" /\ nreq' # nreq )
           => mentors' = mentors /\ students' = students]_vars

C2_Witness ==
    \E r \in SeqSlots :
        /\ plain /\ ~reassigned
        /\ req[r].pc = "done" /\ req[r].kind = "assign" /\ req[r].status = 400
        /\ students[req[r].sid].mentor # NoRef
        /\ req[r].sid \in Range(mentors[students[req[r].sid].mentor].students)

\* C3: a reassign request for a student whose current mentor is X, to an
\* existing mentor Y, run alone and with no store failure, responds 200 and
\* leaves s.mentor = Y and s.previousMentor = X, whatever s.previousMentor
\* held.
C3_ReassignRecordsPrevious ==
    [][\A r \in SeqSlots :
        LET q == req[r] IN
        q.kind = "reassign" /\ StepOk(r) =>
            /\ ( /\ q.pc = "findMentor"
                 /\ FindStudent(q.sid).exists
                 /\ FindStudent(q.sid).mentor # NoRef
                 /\ FindMentor(q.mid).exists )
               => req'[r].pc = "saveStudent"
            /\ ( q.pc = "saveStudent" /\ students[q.sid].mentor # NoRef )
               => /\ req'[r].pc = "saveMentor"
                  /\ students'[q.sid].mentor = q.mid
                  /\ students'[q.sid].previousMentor = students[q.sid].mentor
            /\ ( q.pc = "saveMentor" /\ q.student.mentor # NoRef )
               => /\ req'[r].pc = "done" /\ req'[r].status = 200
                  /\ students'[q.sid].mentor = q.mid
                  /\ students'[q.sid].previousMentor = q.student.mentor]_vars

\* The student was with M2 and had M1 recorded; the reassign to M3 has written
\* the student: it has M2 recorded and M1 is gone.
C3_Witness ==
    \E r \in SeqSlots :
        LET q == req[r] IN
        /\ q.pc = "saveMentor" /\ q.kind = "reassign"
        /\ q.student.mentor # NoRef
        /\ q.student.previousMentor \notin {NoRef, q.student.mentor}
        /\ q.mid \notin {q.student.mentor, q.student.previousMentor}
        /\ students[q.sid].mentor = q.mid
        /\ students[q.sid].previousMentor = q.student.mentor

\* C4 (as claimed): an id-taking endpoint given an id that resolves to no
\* document responds 404 and modifies no document.
C4_NotFound404 ==
    [][\A r \in SeqSlots :
        LET q == req'[r]
            missing ==
                \/ q.kind \in {"assign", "reassign"}
                   /\ (~FindMentor(q.mid).exists \/ ~FindStudent(q.sid).exists)
                \/ q.kind = "mentorStudents" /\ ~FindMentor(q.mid).exists
                \/ q.kind = "previousMentor" /\ ~FindStudent(q.sid).exists
        IN Responds(r) /\ q.err # "store" /\ missing
           => q.status = 404 /\ mentors' = mentors /\ students' = students]_vars

\* C5 (as claimed): for an existing student no reassign request was ever
\* made for, GET previous-mentor responds 200 with null.
C5_NoPreviousMentor ==
    \A r \in SeqSlots :
        ( /\ req[r].pc = "done" /\ req[r].kind = "previousMentor"
          /\ req[r].err # "store"
          /\ FindStudent(req[r].sid).exists
          /\ ~reassigned )
        => req[r].status = 200 /\ req[r].body = <<>>

\* C6: a reassign request for an existing student with no current mentor, to
\* an existing mentor Y, is accepted: 200, s.mentor = Y, s in Y.students,
\* s.previousMentor as it was.
C6_ReassignUnassigned ==
    [][\A r \in SeqSlots :
        LET q == req[r] IN
        q.kind = "reassign" /\ StepOk(r) =>
            /\ ( /\ q.pc = "findMentor"
                 /\ FindStudent(q.sid).exists
                 /\ FindStudent(q.sid).mentor = NoRef
                 /\ FindMentor(q.mid).exists )
               => req'[r].pc = "saveStudent"
            /\ ( q.pc = "saveStudent" /\ students[q.sid].mentor = NoRef )
               => /\ req'[r].pc = "saveMentor"
                  /\ students'[q.sid].mentor = q.mid
                  /\ students'[q.sid].previousMentor = students[q.sid].previousMentor
            /\ ( q.pc = "saveMentor" /\ q.student.mentor = NoRef )
               => /\ req'[r].pc = "done" /\ req'[r].status = 200
                  /\ students'[q.sid].mentor = q.mid
                  /\ students'[q.sid].previousMentor = q.student.previousMentor
                  /\ q.sid \in Range(mentors'[q.mid].students)]_vars

C6_Witness ==
    \E r \in SeqSlots :
        LET q == req[r] IN
        /\ q.pc = "done" /\ q.kind = "reassign" /\ q.status = 200
        /\ students[q.sid].mentor = q.mid
        /\ students[q.sid].previousMentor = NoRef
        /\ q.sid \in Range(mentors[q.mid].students)

\* C7 (as claimed): GET /mentors/:id/students returns the documents of
\* exactly the identifiers stored in m.students.
BodyIds(body) == [i \in 1..Len(body) |-> body[i].id]

C7_ExactlyTheRoster ==
    \A r \in SeqSlots :
        ( req[r].pc = "done" /\ req[r].kind = "mentorStudents" /\ req[r].status = 200 )
        => BodyIds(req[r].body) = mentors[req[r].mid].students

\* C8 (as claimed): with no request in flight, every id in m.students is an
\* existing student whose mentor is m.  Stated of the runs in which no POST
\* body carried a relationship field, where rosters come from assign and
\* reassign alone.
C8_Bidirectional ==
    (plain /\ \A r \in Slots : req[r].pc \in {"idle", "done"})
    => \A m \in MentorIds : \A s \in Range(mentors[m].students) :
           FindStudent(s).exists /\ FindStudent(s).mentor = m

\* C9: two overlapping assign requests for the same student to different
\* mentors that both respond 200 leave the student in both rosters, its
\* mentor field holding one of the two.
C9_DoubleAssignment ==
    \A r1, r2 \in Slots :
        ( /\ r1 # r2
          /\ req[r1].pc = "done" /\ req[r1].kind = "assign" /\ req[r1].status = 200
          /\ req[r2].pc = "done" /\ req[r2].kind = "assign" /\ req[r2].status = 200
          /\ req[r1].sid = req[r2].sid /\ req[r1].mid # req[r2].mid )
        => /\ req[r1].sid \in Range(mentors[req[r1].mid].students)
           /\ req[r1].sid \in Range(mentors[req[r2].mid].students)
           /\ students[req[r1].sid].mentor \in {req[r1].mid, req[r2].mid}

C9_Witness ==
    /\ ~reassigned
    /\ req[1].pc = "done" /\ req[1].kind = "assign" /\ req[1].status = 200
    /\ req[2].pc = "done" /\ req[2].kind = "assign" /\ req[2].status = 200
    /\ req[1].sid = req[2].sid /\ req[1].mid # req[2].mid
    /\ req[1].sid \in Range(mentors[req[1].mid].students)
    /\ req[1].sid \in Range(mentors[req[2].mid].students)
    /\ students[req[1].sid].mentor = req[2].mid

\* A mentor write that is rejected after the student write succeeded.
MentorWriteFails(r) ==
    /\ req[r].pc = "saveMentor"
    /\ req'[r].pc = "done"
    /\ req'[r].at = "saveMentor"
    /\ req'[r].err = "store"

\* C10 (as claimed): when the mentor write fails after the student write, the
\* response is 500, the student keeps mentor = m, and m.students does not
\* contain the student.  Stated of the runs in which no POST body carried a
\* relationship field.
C10_NoRollbackNotListed ==
    [][\A r \in SeqSlots :
        plain /\ MentorWriteFails(r) =>
            /\ req'[r].status = 500
            /\ students'[req[r].sid].mentor = req[r].mid
            /\ req[r].sid \notin Range(mentors'[req[r].mid].students)]_vars

\* C10 (amended): when the mentor write fails after the student write, the
\* response is 500, the student keeps mentor = m (and, on reassign, the
\* previousMentor it was given), and m.students is as it was before the
\* request: the student was not appended.
C10_NoRollback ==
    [][\A r \in SeqSlots :
        LET q == req[r] IN
        MentorWriteFails(r) =>
            /\ req'[r].status = 500
            /\ students' = students
            /\ students'[q.sid].mentor = q.mid
            /\ ( q.kind = "reassign" /\ q.student.mentor # NoRef )
               => students'[q.sid].previousMentor = q.student.mentor
            /\ mentors'[q.mid].students = q.mentor.students]_vars

C10_Witness ==
    \E r \in SeqSlots :
        LET q == req[r] IN
        /\ q.pc = "done" /\ q.status = 500 /\ q.err = "store" /\ q.at = "saveMentor"
        /\ q.kind \in {"assign", "reassign"}
        /\ students[q.sid].mentor = q.mid
        /\ q.sid \notin Range(mentors[q.mid].students)

\* The array holds no identifier twice.
NoDuplicates(seq) == \A i, j \in 1..Len(seq) : seq[i] = seq[j] => i = j

\* C11 (as claimed): no mentor's students contains the same student
\* identifier more than once.  Stated of the runs in which no POST body
\* carried a relationship field, where rosters come from assign and reassign
\* alone.
C11_RosterIsSet ==
    plain => \A m \in MentorIds : NoDuplicates(mentors[m].students)

\* C12 (as claimed): a student just created has no mentor and no
\* previousMentor, a mentor just created has empty students, whatever the
\* request body carries; a student's mentor changes from absent to set only
\* in a step of an assign or reassign request.
C12_OnlyByAssignOrReassign ==
    [][\A r \in SeqSlots :
        LET q == req'[r] IN
        /\ ( Responds(r) /\ q.kind = "createStudent" /\ q.status = 201 )
           => students'[q.sid].mentor = NoRef /\ students'[q.sid].previousMentor = NoRef
        /\ ( Responds(r) /\ q.kind = "createMentor" /\ q.status = 201 )
           => mentors'[q.mid].students = <<>>
        /\ \A s \in StudentIds :
               ( students[s].mentor = NoRef /\ students'[s].mentor # NoRef )
               => req[r].kind \in {"assign", "reassign"} /\ req[r].pc = "saveStudent"]_vars

\* a is an initial part of b.
IsPrefix(a, b) == Len(a) <= Len(b) /\ SubSeq(b, 1, Len(a)) = a

\* C13: no step removes an identifier from a mentor's students: each roster
\* only gains entries at its end; and the step that completes a reassign of a
\* student from M1 to a different mentor M2 leaves the student in M1.students.
C13_RosterOnlyGrows ==
    [][/\ \A m \in MentorIds : IsPrefix(mentors[m].students, mentors'[m].students)
       /\ \A r \in SeqSlots :
              LET q == req[r]
                  old == q.student.mentor
              IN ( /\ q.kind = "reassign" /\ q.pc = "saveMentor" /\ StepOk(r)
                   /\ old \in MentorIds /\ old # q.mid
                   /\ q.sid \in Range(mentors[old].students) )
                 => /\ q.sid \in Range(mentors'[old].students)
                    /\ q.sid \in Range(mentors'[q.mid].students)]_vars

\* The student was assigned to M1 and then reassigned to M2: it is with M2,
\* has M1 recorded, and both rosters hold it.
C13_Witness ==
    \E r \in SeqSlots :
        LET q == req[r]
            s == students[q.sid]
        IN /\ plain
           /\ q.pc = "done" /\ q.kind = "reassign" /\ q.status = 200
           /\ s.mentor = q.mid
           /\ s.previousMentor \in MentorIds /\ s.previousMentor # q.mid
           /\ q.sid \in Range(mentors[s.previousMentor].students)
           /\ q.sid \in Range(mentors[q.mid].students)

\* C14: every request in flight eventually has its response (the store
\* answering every operation awaited); a request that has responded takes no
\* further step, its slot changing only when the next request arrives; and a
\* store operation that fails, at a read or at a write, ends the request with
\* a 500 response in that very step, which performs no store write.
C14_RespondsOnce ==
    /\ \A r \in Slots : (req[r].pc \notin {"idle", "done"}) ~> (req[r].pc = "done")
    /\ [][\A r \in Slots :
            /\ ( req[r].pc = "done" /\ req'[r] # req[r] ) => nreq' = nreq + 1
            /\ ( req[r].pc \notin {"idle", "done"} /\ req'[r] # req[r] )
               => nreq' = nreq /\ req'[r].kind = req[r].kind
            /\ ( req'[r] # req[r] /\ req'[r].err = "store" )
               => /\ req'[r].pc = "done" /\ req'[r].status = 500
                  /\ mentors' = mentors /\ students' = students]_vars

\* The student write of an assign or reassign request was rejected: the
\* request has its 500, the student is as it was read and the request has not
\* gone on to the mentor write.
C14_Witness ==
    \E r \in Slots :
        LET q == req[r] IN
        /\ q.pc = "done" /\ q.err = "store" /\ q.at = "saveStudent" /\ q.status = 500
        /\ q.kind \in {"assign", "reassign"}
        /\ students[q.sid].mentor # q.mid
        /\ q.sid \notin Range(mentors[q.mid].students)

\* C15: under overlapping assign and reassign requests on students created
\* without a mentor, with no store failure, in every state with no request in
\* flight every student whose mentor is m is in m.students.
C15_ForwardConsistency ==
    (\A r \in Slots : req[r].pc \in {"idle", "done"})
    => \A s \in StudentIds :
           ( students[s].exists /\ students[s].mentor # NoRef )
           => /\ FindMentor(students[s].mentor).exists
              /\ s \in Range(mentors[students[s].mentor].students)

\* Two assign requests for different students and the same mentor
\* overlapped: each read the roster empty (its response lists its own student
\* alone), and the stored roster holds both students.
C15_Witness ==
    /\ req[1].pc = "done" /\ req[1].kind = "assign" /\ req[1].status = 200
    /\ req[2].pc = "done" /\ req[2].kind = "assign" /\ req[2].status = 200
    /\ req[1].mid = req[2].mid /\ req[1].sid # req[2].sid
    /\ req[1].body[1].students = <<req[1].sid>>
    /\ req[2].body[1].students = <<req[2].sid>>
    /\ Range(mentors[req[1].mid].students) = {req[1].sid, req[2].sid}
    /\ students[req[1].sid].mentor = req[1].mid
    /\ students[req[2].sid].mentor = req[1].mid

\* C16: a step of an assign or reassign request for student s and mentor m
\* leaves every other student and every other mentor (the student's former
\* mentor included) as it was, leaves the names of s and m and the existence
\* of both as they were, and, in an assign request, leaves s.previousMentor
\* as it was; the step in which the request arrives writes nothing.
C16_WritesOnlyItsTwoDocuments ==
    [][\A r \in Slots :
        LET q == req[r] IN
        /\ ( q.kind \in {"assign", "reassign"} /\ q.pc \notin {"idle", "done"}
             /\ req'[r] # req[r] )
           => /\ \A s \in StudentIds \ {q.sid} : students'[s] = students[s]
              /\ \A m \in MentorIds \ {q.mid} : mentors'[m] = mentors[m]
              /\ FindStudent(q.sid)'.name = FindStudent(q.sid).name
              /\ FindStudent(q.sid)'.exists = FindStudent(q.sid).exists
              /\ FindMentor(q.mid)'.name = FindMentor(q.mid).name
              /\ FindMentor(q.mid)'.exists = FindMentor(q.mid).exists
              /\ q.kind = "assign"
                 => FindStudent(q.sid)'.previousMentor = FindStudent(q.sid).previousMentor
        /\ ( req'[r].kind \in {"assign", "reassign"} /\ nreq' # nreq /\ req'[r] # req[r] )
           => mentors' = mentors /\ students' = students]_vars

\* An assign request has completed for a student that had a previous mentor
\* recorded: the record is still there, and the student is with its mentor.
C16_Witness ==
    \E r \in SeqSlots :
        LET q == req[r] IN
        /\ q.pc = "done" /\ q.kind = "assign" /\ q.status = 200
        /\ students[q.sid].mentor = q.mid
        /\ students[q.sid].previousMentor # NoRef
        /\ q.sid \in Range(mentors[q.mid].students)
====
